---- MODULE Spec2Model ----
(***************************************************************************)
(* A model of src/src/sleep_extension.cpp: the three scalar functions      *)
(* sleep(seconds), sleep_for(interval) and sleep_until(timestamp), the     *)
(* shared PerformSleep and its interruption-polling loop.                  *)
(*                                                                         *)
(* Time.  Every time quantity (the steady clock, the wall clock, a         *)
(* duration, a timestamp) is counted in ticks of TickMs milliseconds,      *)
(* half a CHECK_INTERVAL_MS, so that a remaining time shorter than one     *)
(* check interval exists.                                                  *)
(*                                                                         *)
(* Doubles.  A double is a record [k, v]: k = "nan", k = "inf" (v its      *)
(* sign), k = "mzero" (negative zero) or k = "fin" (v its value in ticks). *)
(* The comparisons below are the IEEE ones: every comparison with NaN is   *)
(* false, negative zero compares equal to zero.                            *)
(*                                                                         *)
(* int64.  timestamp_t::value is a two's complement integer of TimestampBits *)
(* bits (standing for the 64 of int64_t), in ticks.  A signed subtraction  *)
(* that leaves the range is undefined behaviour: the model offers the      *)
(* wrapped result and a trap.                                              *)
(***************************************************************************)
EXTENDS Integers, Sequences, FiniteSets, TLC

\* ---------------------------------------------------------------- constants

MAX_SLEEP_SECONDS == 3600

CHECK_INTERVAL_MS == 100

\* ------------------------------------------------------------------- bounds

\* Rows of a batch (args.size()).
MaxRows == 2

\* Times the calling thread is held up (scheduling, a sleep that lasts longer
\* than asked) during one invocation, and the longest such delay in ticks.
MaxPreempt == 1

MaxDelay == 3

\* Width of timestamp_t::value in the model.
TimestampBits == 28

\* The wall clock (Timestamp::GetCurrentTimestamp) when the invocation starts.
EpochNow == 1000

\* ------------------------------------------------------------------- units

TickMs == CHECK_INTERVAL_MS \div 2

TicksPerSecond == 1000 \div TickMs

MicrosPerTick == TickMs * 1000

\* std::chrono::milliseconds(CHECK_INTERVAL_MS), in ticks.
CheckInterval == CHECK_INTERVAL_MS \div TickMs

\* MAX_SLEEP_SECONDS as a std::chrono::duration<double>, in ticks.
MaxSleepTicks == MAX_SLEEP_SECONDS * TicksPerSecond

\* ------------------------------------------------------------------ doubles

NaN == [k |-> "nan", v |-> 0]

PosInf == [k |-> "inf", v |-> 1]

NegInf == [k |-> "inf", v |-> -1]

MinusZero == [k |-> "mzero", v |-> 0]

Fin(t) == [k |-> "fin", v |-> t]

NULL == [k |-> "null", v |-> 0]

\* Mutant of IsNaN: the NaN test is missing.
IsNaN_never(x) == FALSE

\* Mutant of IsNaN: negative durations are rejected together with NaN.
IsNaN_orNegative(x) == x.k = "nan" \/ (x.k = "fin" /\ x.v < 0)

\* std::isnan
IsNaN(x) == x.k = "nan"

\* std::isinf: true of both infinities
IsInf(x) == x.k = "inf"

\* x <= 0 on doubles
LeZero(x) == CASE x.k = "nan" -> FALSE
               [] x.k = "inf" -> x.v < 0
               [] OTHER -> x.v <= 0

\* x > MAX_SLEEP_SECONDS on doubles
GtMax(x) == CASE x.k = "nan" -> FALSE
              [] x.k = "inf" -> x.v > 0
              [] OTHER -> x.v > MaxSleepTicks

\* ------------------------------------------------------------------- int64

INT64_MIN == -(2 ^ (TimestampBits - 1))

INT64_MAX == 2 ^ (TimestampBits - 1) - 1

\* The two's complement value of an out-of-range result.
Wrap(n) == ((n - INT64_MIN) % (2 ^ TimestampBits)) + INT64_MIN

\* target_timestamp.value - current_timestamp.value as int64_t.  In range, the
\* difference; out of range, signed overflow: the wrapped value or a trap.
SubInt64(a, b) ==
    IF a - b >= INT64_MIN /\ a - b <= INT64_MAX
    THEN {[trap |-> FALSE, v |-> a - b]}
    ELSE {[trap |-> FALSE, v |-> Wrap(a - b)], [trap |-> TRUE, v |-> 0]}

\* ---------------------------------------------------------------- intervals

\* interval_t {months, days, micros}
Interval(m, d, us) == [k |-> "interval", months |-> m, days |-> d, micros |-> us]

\* Mutant of IntervalSeconds: the factors of days and months are exchanged.
IntervalSeconds_swapped(iv) ==
    [k |-> "fin",
     v |-> iv.days * 2592000 * TicksPerSecond
           + iv.months * 86400 * TicksPerSecond
           + iv.micros \div MicrosPerTick]

\* static_cast<double>(days) * 86400.0 + static_cast<double>(months) * 2592000.0
\* + static_cast<double>(micros) / 1000000.0, in ticks
IntervalSeconds(iv) ==
    Fin(iv.days * 86400 * TicksPerSecond
        + iv.months * 2592000 * TicksPerSecond
        + iv.micros \div MicrosPerTick)

\* timestamp_t {value}
Timestamp(t) == [k |-> "timestamp", v |-> t]

\* validity.RowIsValid(i)
RowIsValid(r) == r.k # "null"

\* -------------------------------------------------------------------- state

VARIABLES
    fn,             \* the function invoked: "sleep", "sleep_for", "sleep_until"
    rows,           \* args.data[0], flattened: one input per row, NULL if invalid
    i,              \* the row loop's index (1-based)
    pc,             \* where the calling thread is
    seconds,        \* PerformSleep's parameter
    end_time,       \* PerformSleep's deadline on the steady clock
    sleep_duration, \* the length asked of the next std::this_thread::sleep_for
    clock,          \* std::chrono::steady_clock::now(), ticks since the invocation
    interrupted,    \* context.interrupted
    result,         \* the result vector: "unset" or "null" (constant NULL)
    error,          \* the exception that left the function: "none" or its name
    preempts,       \* times the thread was held up so far
    held,           \* ticks the thread was held up so far, in all (history)
    log,            \* per row: what was done for it (history)
    cancelT,        \* the clock when context.interrupted was set, -1 before (history)
    cancelRow       \* the row whose wait was in progress then, 0 if none (history)

vars == <<fn, rows, i, pc, seconds, end_time, sleep_duration, clock, interrupted,
          result, error, preempts, held, log, cancelT, cancelRow>>

\* Timestamp::GetCurrentTimestamp(): the wall clock advances with the steady one.
GetCurrentTimestamp == EpochNow + clock

NoLog == [called |-> FALSE, raw |-> NULL, intr |-> FALSE, sampled |-> FALSE, now |-> 0,
          subtracted |-> FALSE,
          start |-> -1, dur |-> -1, checks |-> 0, sleeps |-> 0, lastSleep |-> 0,
          outcome |-> "none", tEnd |-> -1]

\* The positions inside PerformSleep's polling loop.
InLoop == pc \in {"loop", "check", "remaining", "sleep"}

\* ------------------------------------------------------------------- inputs

SleepInputs ==
    {NULL, NaN, Fin(0), MinusZero, Fin(-TicksPerSecond), Fin(3)}

SleepForInputs ==
    {NULL, Interval(0, 0, 0), Interval(0, 0, 100000), Interval(0, 0, -500000),
     Interval(1, -30, 150000)}

SleepUntilInputs ==
    {NULL, Timestamp(INT64_MIN), Timestamp(EpochNow - 3600 * TicksPerSecond),
     Timestamp(EpochNow), Timestamp(EpochNow + 3)}

\* The extremes of each input type (most of them wait for MAX_SLEEP_SECONDS),
\* beside a few ordinary inputs.
SleepLongInputs ==
    {PosInf, NegInf, Fin(MaxSleepTicks + 1), Fin(MaxSleepTicks), Fin(3),
     Fin(-MaxSleepTicks)}

SleepForLongInputs ==
    {Interval(1, 0, 0), Interval(0, 1, 0), Interval(-1, 0, 0),
     Interval(0, 0, 500000), Interval(0, 0, -500000), Interval(1, -30, 150000)}

SleepUntilLongInputs ==
    {Timestamp(INT64_MAX), Timestamp(INT64_MIN), Timestamp(INT64_MIN + 1),
     Timestamp(INT64_MAX - 1), Timestamp(EpochNow - 3600 * TicksPerSecond),
     Timestamp(EpochNow + 3)}

Batches(S, n) == UNION {[1..len -> S] : len \in 0..n}

InitState(f, b) ==
    /\ fn = f
    /\ rows = b
    /\ i = 1
    /\ pc = "row"
    /\ seconds = NULL
    /\ end_time = 0
    /\ sleep_duration = 0
    /\ clock = 0
    /\ interrupted \in BOOLEAN
    /\ result = "unset"
    /\ error = "none"
    /\ preempts = 0
    /\ held = 0
    /\ log = [r \in 1..Len(b) |-> NoLog]
    /\ cancelT = IF interrupted THEN 0 ELSE -1
    /\ cancelRow = 0

Init ==
    \/ \E b \in Batches(SleepInputs, MaxRows) : InitState("sleep", b)
    \/ \E b \in Batches(SleepForInputs, MaxRows) : InitState("sleep_for", b)
    \/ \E b \in Batches(SleepUntilInputs, MaxRows) : InitState("sleep_until", b)

InitLong ==
    /\ \/ \E x \in SleepLongInputs : InitState("sleep", <<x>>)
       \/ \E x \in SleepForLongInputs : InitState("sleep_for", <<x>>)
       \/ \E x \in SleepUntilLongInputs : InitState("sleep_until", <<x>>)
    /\ ~interrupted

\* ------------------------------------------------------------ PerformSleep

Touch(f, val) == [log EXCEPT ![i] = [@ EXCEPT ![f] = val]]

\* The call PerformSleep(context, s) for row i.
Call(s) ==
    /\ seconds' = s
    /\ pc' = "perform"

\* Mutant of Return: the row loop moves on by two rows.
Return_skipping(l) ==
    /\ log' = [l EXCEPT ![i] = [@ EXCEPT !.outcome = "elapsed", !.tEnd = clock]]
    /\ pc' = "row"
    /\ i' = i + 2

\* PerformSleep returns to the row loop, which moves on to the next row.
Return(l) ==
    /\ log' = [l EXCEPT ![i] = [@ EXCEPT !.outcome = "elapsed", !.tEnd = clock]]
    /\ pc' = "row"
    /\ i' = i + 1

\* Mutant of Throw: the exception is caught in the row loop, which goes on.
Throw_swallowed(l, e, o) ==
    /\ log' = [l EXCEPT ![i] = [@ EXCEPT !.outcome = o, !.tEnd = clock]]
    /\ pc' = "row"
    /\ error' = e

\* An exception leaves PerformSleep and the function that called it.
Throw(l, e, o) ==
    /\ log' = [l EXCEPT ![i] = [@ EXCEPT !.outcome = o, !.tEnd = clock]]
    /\ pc' = "error"
    /\ error' = e

\* Line 52: an infinite duration is replaced by the maximum.
CapInfinity(s) == IF IsInf(s) THEN Fin(MaxSleepTicks) ELSE s

\* Mutant of CapAtMaximum: the cap is missing.
CapAtMaximum_none(s) == s

\* Line 61: a duration above the maximum is replaced by the maximum.
CapAtMaximum(s) == IF GtMax(s) THEN Fin(MaxSleepTicks) ELSE s

\* Lines 46-66: validation, the caps and the deadline.
PerformSleep ==
    /\ pc = "perform"
    /\ LET l0 == [log EXCEPT ![i] = [@ EXCEPT !.called = TRUE, !.raw = seconds,
                                              !.intr = interrupted]]
           s1 == CapInfinity(seconds)
           s2 == CapAtMaximum(s1)
       IN  IF IsNaN(seconds)
           THEN /\ Throw(l0, "InvalidInputException", "invalid")
                /\ UNCHANGED <<i, seconds, end_time>>
           ELSE IF LeZero(s1)
           THEN /\ Return(l0)
                /\ seconds' = s1
                /\ UNCHANGED <<end_time, error>>
           ELSE /\ seconds' = s2
                /\ end_time' = clock + s2.v
                /\ log' = [l0 EXCEPT ![i] = [@ EXCEPT !.start = clock, !.dur = s2.v,
                                                      !.outcome = "pending"]]
                /\ pc' = "loop"
                /\ UNCHANGED <<i, error>>
    /\ UNCHANGED <<fn, rows, sleep_duration, clock, interrupted, result, preempts, held,
                   cancelT, cancelRow>>

\* Mutant of LoopCondition: the loop stops once less than a check interval is left.
LoopCondition_early == clock + CheckInterval < end_time

\* Line 71: the loop's condition, steady_clock::now() < end_time.
LoopCondition == clock < end_time

\* Line 71: the test of the loop; PerformSleep returns when it fails.
LoopTest ==
    /\ pc = "loop"
    /\ IF LoopCondition
       THEN /\ pc' = "check"
            /\ UNCHANGED <<i, log>>
       ELSE Return(log)
    /\ UNCHANGED <<fn, rows, seconds, end_time, sleep_duration, clock, interrupted,
                   result, error, preempts, held, cancelT, cancelRow>>

\* Lines 36-40 at line 72: throw InterruptException if context.interrupted.
CheckInterruption ==
    /\ pc = "check"
    /\ LET l0 == Touch("checks", log[i].checks + 1)
       IN  IF interrupted
           THEN /\ Throw(l0, "InterruptException", "cancelled")
                /\ UNCHANGED i
           ELSE /\ log' = l0
                /\ pc' = "remaining"
                /\ UNCHANGED <<i, error>>
    /\ UNCHANGED <<fn, rows, seconds, end_time, sleep_duration, clock, interrupted,
                   result, preempts, held, cancelT, cancelRow>>

\* Mutant of SleepDuration: every sleep is one tick long.
SleepDuration_tick(remaining) == IF remaining > 0 THEN 1 ELSE remaining

\* Mutant of SleepDuration: every sleep is a whole check interval.
SleepDuration_whole(remaining) == CheckInterval

\* Line 76: (remaining < check_interval) ? remaining : check_interval
SleepDuration(remaining) ==
    IF remaining < CheckInterval THEN remaining ELSE CheckInterval

\* Mutant of ComputeRemaining: the deadline is moved to the end of the next sleep
\* counted from now whenever the clock has passed it.
ComputeRemaining_extending ==
    /\ pc = "remaining"
    /\ end_time' = IF end_time - clock < CheckInterval THEN clock + 1 ELSE end_time
    /\ sleep_duration' = SleepDuration(end_time' - clock)
    /\ pc' = IF sleep_duration' > 0 THEN "sleep" ELSE "loop"
    /\ UNCHANGED <<fn, rows, i, seconds, clock, interrupted, result, error,
                   preempts, held, log, cancelT, cancelRow>>

\* Lines 74-78: the length of the next sleep; no sleep unless it is positive.
ComputeRemaining ==
    /\ pc = "remaining"
    /\ sleep_duration' = SleepDuration(end_time - clock)
    /\ pc' = IF sleep_duration' > 0 THEN "sleep" ELSE "loop"
    /\ UNCHANGED <<fn, rows, i, seconds, end_time, clock, interrupted, result, error,
                   preempts, held, log, cancelT, cancelRow>>

\* Line 79: std::this_thread::sleep_for(sleep_duration); the thread wakes no
\* earlier than asked (a later wake-up is a Preempt step after this one).
SleepStep ==
    /\ pc = "sleep"
    /\ clock' = clock + sleep_duration
    /\ log' = [log EXCEPT ![i] = [@ EXCEPT !.sleeps = @ + 1,
                                           !.lastSleep = sleep_duration]]
    /\ pc' = "loop"
    /\ UNCHANGED <<fn, rows, i, seconds, end_time, sleep_duration, interrupted,
                   result, error, preempts, held, cancelT, cancelRow>>

\* ------------------------------------------------------------- the functions

\* Mutant of SetNull: the function returns without setting its result.
SetNull_unset ==
    /\ pc' = "done"
    /\ UNCHANGED <<i, seconds, log, error, result>>

\* Lines 108-109, 141-142, 185-186: the result is the constant NULL vector.
SetNull ==
    /\ result' = "null"
    /\ pc' = "done"
    /\ UNCHANGED <<i, seconds, log, error>>

\* Mutant of SkipRow: a NULL row is read as a duration of zero and passed on.
SkipRow_asZero ==
    /\ seconds' = [k |-> "fin", v |-> 0]
    /\ pc' = "perform"
    /\ UNCHANGED <<i, log, result, error>>

\* Lines 100-102, 124-126, 157-159: a NULL row is skipped.
SkipRow ==
    /\ i' = i + 1
    /\ UNCHANGED <<pc, seconds, log, result, error>>

\* Lines 99-110: sleep(seconds).
SleepFunction ==
    /\ fn = "sleep"
    /\ pc = "row"
    /\ IF i > Len(rows) THEN SetNull
       ELSE IF ~RowIsValid(rows[i]) THEN SkipRow
       ELSE /\ Call(rows[i])
            /\ UNCHANGED <<i, log, result, error>>
    /\ UNCHANGED <<fn, rows, end_time, sleep_duration, clock, interrupted, preempts, held,
                   cancelT, cancelRow>>

\* Lines 123-143: sleep_for(interval).
SleepForFunction ==
    /\ fn = "sleep_for"
    /\ pc = "row"
    /\ IF i > Len(rows) THEN SetNull
       ELSE IF ~RowIsValid(rows[i]) THEN SkipRow
       ELSE /\ Call(IntervalSeconds(rows[i]))
            /\ UNCHANGED <<i, log, result, error>>
    /\ UNCHANGED <<fn, rows, end_time, sleep_duration, clock, interrupted, preempts, held,
                   cancelT, cancelRow>>

\* Line 167: the target is the negative infinity of timestamps.
IsNegInfinity(t) == t.v = INT64_MIN

\* Mutant of IsPosInfinity: the test for the positive infinity is missing.
IsPosInfinity_never(t) == FALSE

\* Line 170: the target is the positive infinity of timestamps.
IsPosInfinity(t) == t.v = INT64_MAX

\* Lines 156-187: sleep_until(timestamp).
SleepUntilFunction ==
    /\ fn = "sleep_until"
    /\ pc = "row"
    /\ IF i > Len(rows) THEN SetNull
       ELSE IF ~RowIsValid(rows[i]) THEN SkipRow
       ELSE LET target_timestamp == rows[i]
                current_timestamp == GetCurrentTimestamp
                l0 == [log EXCEPT ![i] = [@ EXCEPT !.sampled = TRUE,
                                                   !.now = current_timestamp]]
            IN  IF IsNegInfinity(target_timestamp)
                THEN /\ i' = i + 1
                     /\ log' = l0
                     /\ UNCHANGED <<pc, seconds, result, error>>
                ELSE IF IsPosInfinity(target_timestamp)
                THEN /\ Call(Fin(MaxSleepTicks))
                     /\ log' = l0
                     /\ UNCHANGED <<i, result, error>>
                ELSE \E diff_micros \in SubInt64(target_timestamp.v, current_timestamp) :
                        LET l1 == [l0 EXCEPT ![i] = [@ EXCEPT !.subtracted = TRUE]]
                        IN  IF diff_micros.trap
                            THEN /\ Throw(l1, "SignedOverflowTrap", "trap")
                                 /\ UNCHANGED <<i, seconds, result>>
                            ELSE /\ Call(Fin(diff_micros.v))
                                 /\ log' = l1
                                 /\ UNCHANGED <<i, result, error>>
    /\ UNCHANGED <<fn, rows, end_time, sleep_duration, clock, interrupted, preempts, held,
                   cancelT, cancelRow>>

\* ---------------------------------------------------------- the environment

Running == pc \notin {"done", "error"}

\* The host sets context.interrupted (ClientContext::Interrupt) at any moment.
Interrupt ==
    /\ Running
    /\ ~interrupted
    /\ interrupted' = TRUE
    /\ cancelT' = clock
    /\ cancelRow' = IF InLoop THEN i ELSE 0
    /\ UNCHANGED <<fn, rows, i, pc, seconds, end_time, sleep_duration, clock, result,
                   error, preempts, held, log>>

\* The calling thread is held up for d ticks between two of its steps.
Preempt ==
    /\ Running
    /\ preempts < MaxPreempt
    /\ \E d \in 1..MaxDelay : clock' = clock + d
    /\ preempts' = preempts + 1
    /\ held' = held + (clock' - clock)
    /\ UNCHANGED <<fn, rows, i, pc, seconds, end_time, sleep_duration, interrupted,
                   result, error, log, cancelT, cancelRow>>

Step ==
    \/ SleepFunction
    \/ SleepForFunction
    \/ SleepUntilFunction
    \/ PerformSleep
    \/ LoopTest
    \/ CheckInterruption
    \/ ComputeRemaining
    \/ SleepStep

Next ==
    \/ Step
    \/ Interrupt
    \/ Preempt

Spec == Init /\ [][Next]_vars

\* The undisturbed run of one row: no interruption, a clock that advances by
\* the sleeps alone.  It is where the waits of MAX_SLEEP_SECONDS are run.
NextLong ==
    \/ SleepFunction
    \/ SleepForFunction
    \/ SleepUntilFunction
    \/ PerformSleep
    \/ LoopTest
    \/ CheckInterruption
    \/ ComputeRemaining
    \/ SleepStep

SpecLong == InitLong /\ [][NextLong]_vars

\* The calling thread keeps running: a step of it that is possible is taken
\* (std::this_thread::sleep_for returns, the loop goes on).
FairLong == SpecLong /\ WF_vars(NextLong)

\* =================================================================== claims

RowIds == DOMAIN log

\* The deadline of row r's wait, once it is computed.
Deadline(r) == log[r].start + log[r].dur

\* ------------------------------------------------------------------- C1
\* C1 (as claimed): a wait during which the cancellation signal became true at
\* a time T before its deadline never returns success.  It is stated for the
\* runs in which the thread is never held up, where the clock advances by the
\* sleeps alone.
C1_CancelledWaitNeverSucceeds ==
    \A r \in RowIds :
        (cancelRow = r /\ cancelT < Deadline(r) /\ held = 0) =>
            log[r].outcome # "elapsed"

\* ------------------------------------------------------------------- C2
\* C2: for sleep(seconds), a non-null NaN row makes the invocation fail with
\* InvalidInputException; no sleep step and no interruption check was made for
\* that row, the row loop never goes past it and no result is produced.
C2_NaNFailsBeforeSleeping ==
    \A r \in RowIds :
        (fn = "sleep" /\ rows[r] = NaN) =>
            /\ i <= r
            /\ log[r].sleeps = 0
            /\ log[r].checks = 0
            /\ log[r].start = -1
            /\ (i = r /\ pc \notin {"row", "perform"}) =>
                  /\ pc = "error"
                  /\ error = "InvalidInputException"
                  /\ log[r].outcome = "invalid"
                  /\ result = "unset"

\* A NaN row that follows a row which slept has failed the invocation.
C2_Witness ==
    /\ fn = "sleep"
    /\ Len(rows) = 2
    /\ rows[2] = NaN
    /\ log[1].sleeps > 0
    /\ log[2].outcome = "invalid"
    /\ error = "InvalidInputException"

\* ------------------------------------------------------------------- C3
\* C3 (as claimed): for sleep(seconds), negative infinity is a no-op: no
\* deadline is computed and no sleep step is performed for the row.
C3_NegInfIsNoOp ==
    \A r \in RowIds :
        (fn = "sleep" /\ rows[r] = NegInf /\ log[r].called) =>
            /\ log[r].start = -1
            /\ log[r].sleeps = 0
            /\ log[r].outcome = "elapsed"

\* ------------------------------------------------------------------- C4
\* C4: for every non-NaN value passed to PerformSleep by any of the three
\* functions, a deadline, when one is computed, is the clock plus a finite
\* duration within [0, MAX_SLEEP_SECONDS]; the duration is MAX_SLEEP_SECONDS
\* for +infinity and for a finite value above it, and the value itself when
\* 0 < value <= MAX_SLEEP_SECONDS (a deadline is computed in these cases).
C4_DurationWithinCeiling ==
    \A r \in RowIds :
        LET raw == log[r].raw IN
        (log[r].called /\ raw # NaN) =>
            /\ log[r].start >= 0 =>
                  /\ log[r].dur \in 0..MaxSleepTicks
                  /\ (i = r /\ InLoop) => end_time = log[r].start + log[r].dur
            /\ (raw = PosInf \/ (raw.k = "fin" /\ raw.v > MaxSleepTicks)) =>
                  /\ log[r].start >= 0
                  /\ log[r].dur = MaxSleepTicks
            /\ (raw.k = "fin" /\ raw.v > 0 /\ raw.v <= MaxSleepTicks) =>
                  /\ log[r].start >= 0
                  /\ log[r].dur = raw.v

\* A finite value above the ceiling has been clamped to it.
C4_Witness ==
    \E r \in RowIds :
        /\ log[r].raw = Fin(MaxSleepTicks + 1)
        /\ log[r].dur = MaxSleepTicks
        /\ end_time = clock + MaxSleepTicks
        /\ pc = "loop"

\* ------------------------------------------------------------------- C5
\* C5 (as claimed): with no cancellation, a wait of positive duration returns
\* success at or after its deadline and no later than one check interval
\* after it.
C5_ReturnsWithinOneQuantum ==
    \A r \in RowIds :
        (log[r].outcome = "elapsed" /\ log[r].dur > 0 /\ cancelT = -1) =>
            /\ log[r].tEnd >= Deadline(r)
            /\ log[r].tEnd <= Deadline(r) + CheckInterval

\* C5 (amended): with no cancellation, a wait of positive duration never
\* returns success before its deadline, and returns no later than the deadline
\* plus the time the calling thread was held up beyond the sleeps it asked for.
C5_ReturnsAtDeadlinePlusHeld ==
    \A r \in RowIds :
        (log[r].outcome = "elapsed" /\ log[r].dur > 0 /\ cancelT = -1) =>
            /\ log[r].tEnd >= Deadline(r)
            /\ log[r].tEnd <= Deadline(r) + held

\* A wait of several sleep steps returned late, after the thread was held up.
C5_Witness ==
    \E r \in RowIds :
        /\ log[r].outcome = "elapsed"
        /\ log[r].dur > 0
        /\ cancelT = -1
        /\ log[r].sleeps >= 2
        /\ log[r].tEnd > Deadline(r)

\* ------------------------------------------------------------------- C6
\* C6: a call of PerformSleep with a finite value <= 0 (zero, negative zero,
\* a negative value) returns success with no sleep step, no interruption
\* check and no error.
C6_NonPositiveIsNoOp ==
    \A r \in RowIds :
        LET raw == log[r].raw IN
        (log[r].called /\ raw.k \in {"fin", "mzero"} /\ raw.v <= 0) =>
            /\ log[r].outcome = "elapsed"
            /\ log[r].sleeps = 0
            /\ log[r].checks = 0
            /\ (i = r) => error = "none"

\* A negative value and a negative zero were both passed and both returned.
C6_Witness ==
    /\ Len(rows) = 2
    /\ log[1].raw = Fin(-TicksPerSecond)
    /\ log[2].raw = MinusZero
    /\ log[1].outcome = "elapsed"
    /\ log[2].outcome = "elapsed"

\* ------------------------------------------------------------------- C7
\* C7 (as claimed): for sleep_until, a target that is neither sentinel and is
\* at or before the sampled current timestamp gives a non-positive seconds
\* value and the row performs no wait.
C7_PastTargetNoWait ==
    \A r \in RowIds :
        (fn = "sleep_until" /\ log[r].subtracted /\ rows[r].v <= log[r].now) =>
            (log[r].called => (log[r].raw.v <= 0 /\ log[r].start = -1
                               /\ log[r].sleeps = 0))

\* ------------------------------------------------------------------- C8
\* C8: for sleep_until, a row whose target is the negative infinity sentinel
\* never reaches PerformSleep; a row whose target is the positive infinity
\* sentinel calls PerformSleep(MAX_SLEEP_SECONDS) and waits for exactly
\* that; the subtraction is evaluated for neither.
C8_SentinelTargets ==
    \A r \in RowIds :
        (fn = "sleep_until" /\ RowIsValid(rows[r])) =>
            /\ rows[r].v = INT64_MIN =>
                  /\ ~log[r].called /\ ~log[r].subtracted
                  /\ log[r].sleeps = 0 /\ log[r].checks = 0
                  /\ log[r].outcome = "none"
                  /\ (i = r) => pc = "row"
            /\ rows[r].v = INT64_MAX =>
                  /\ ~log[r].subtracted
                  /\ log[r].sampled =>
                        \/ (i = r /\ pc = "perform" /\ seconds = Fin(MaxSleepTicks))
                        \/ (log[r].called /\ log[r].raw = Fin(MaxSleepTicks)
                            /\ log[r].dur = MaxSleepTicks)

\* The positive infinity sentinel has started a wait of MAX_SLEEP_SECONDS.
C8_Witness ==
    \E r \in RowIds :
        /\ fn = "sleep_until"
        /\ rows[r].v = INT64_MAX
        /\ log[r].dur = MaxSleepTicks
        /\ log[r].sleeps = 1

\* ------------------------------------------------------------------- C9
\* C9: for sleep_for, the value passed to PerformSleep is days*86400 +
\* months*2592000 + micros/1000000 seconds, each component with its own sign;
\* the row does not wait when that total is <= 0, waits MAX_SLEEP_SECONDS when
\* it is above the ceiling (months = 1), and waits the total otherwise
\* (micros = 500000 waits half a second).
C9_IntervalSeconds ==
    \A r \in RowIds :
        (fn = "sleep_for" /\ log[r].called) =>
            LET iv == rows[r]
                total == (iv.days * 86400 + iv.months * 2592000) * TicksPerSecond
                         + iv.micros \div MicrosPerTick
            IN  /\ log[r].raw = Fin(total)
                /\ total <= 0 => (log[r].start = -1 /\ log[r].sleeps = 0
                                  /\ log[r].outcome = "elapsed")
                /\ total > MaxSleepTicks => log[r].dur = MaxSleepTicks
                /\ (total > 0 /\ total <= MaxSleepTicks) => log[r].dur = total
                /\ iv = Interval(1, 0, 0) => log[r].dur = MaxSleepTicks
                /\ iv = Interval(0, 0, 500000) => 2 * log[r].dur = TicksPerSecond

\* An interval of mixed signs (one month less thirty days, plus 0.15 s) has
\* waited for its total.
C9_Witness ==
    \E r \in RowIds :
        /\ fn = "sleep_for"
        /\ rows[r] = Interval(1, -30, 150000)
        /\ log[r].dur = 3
        /\ log[r].outcome = "elapsed"
        /\ log[r].tEnd = Deadline(r)

\* ------------------------------------------------------------------- C10
\* C10: a NULL row is never passed to PerformSleep: nothing is done for it (no
\* timestamp sampled, no normalization, no interruption check, no sleep
\* step), whatever the rows before and after it.
C10_NullRowUntouched ==
    \A r \in RowIds :
        ~RowIsValid(rows[r]) =>
            /\ log[r] = NoLog
            /\ (i = r) => pc = "row"

\* The first row is NULL and the row after it has slept and returned.
C10_Witness ==
    /\ Len(rows) = 2
    /\ ~RowIsValid(rows[1])
    /\ log[2].sleeps > 0
    /\ log[2].outcome = "elapsed"


\* ------------------------------------------------------------------- C11
\* C11: an invocation that completes without error has produced the constant
\* NULL result, which stands for every row of the batch, and has produced it
\* only after every row was passed: no wait is pending, every row that
\* started a wait has finished it, and no result exists before completion.
C11_NullResultAfterAllWaits ==
    /\ pc = "done" => (result = "null" /\ error = "none")
    /\ result = "null" =>
          /\ pc = "done"
          /\ i = Len(rows) + 1
          /\ \A r \in RowIds :
                /\ log[r].outcome \in {"none", "elapsed"}
                /\ log[r].called => log[r].outcome = "elapsed"
                /\ log[r].start >= 0 => log[r].tEnd >= Deadline(r)
    /\ result \in {"unset", "null"}

\* A batch of a NULL row and a row that slept has completed with the NULL result.
C11_Witness ==
    /\ result = "null"
    /\ Len(rows) = 2
    /\ ~RowIsValid(rows[1])
    /\ log[2].sleeps > 0

\* ------------------------------------------------------------------- C12
\* C12: once a row has raised InterruptException or InvalidInputException, the
\* invocation is in error at that row with no result, and no later row was
\* started (nothing sampled, normalized, checked or slept for it); the row
\* loop never resumes.
C12_ErrorStopsBatch ==
    \A r \in RowIds :
        log[r].outcome \in {"cancelled", "invalid"} =>
            /\ pc = "error"
            /\ i = r
            /\ result = "unset"
            /\ error = (IF log[r].outcome = "invalid" THEN "InvalidInputException"
                        ELSE "InterruptException")
            /\ \A j \in RowIds : j > r => log[j] = NoLog

\* The first of two rows was cancelled while the second is a valid row.
C12_Witness ==
    /\ Len(rows) = 2
    /\ log[1].outcome = "cancelled"
    /\ log[1].sleeps > 0
    /\ RowIsValid(rows[2])


\* ------------------------------------------------------------------- C13
\* C13 (as claimed): a wait invoked while the cancellation signal is already
\* true fails with Cancelled without sleeping, whatever its duration in
\* [0, MAX_SLEEP_SECONDS], zero included.  It is stated for the runs in which
\* the thread is never held up.
C13_CancelledBeforeWaitFails ==
    \A r \in RowIds :
        (log[r].called /\ log[r].intr /\ log[r].raw.k \in {"fin", "mzero"}
         /\ log[r].raw.v >= 0 /\ log[r].raw.v <= MaxSleepTicks /\ held = 0
         /\ log[r].outcome # "pending") =>
            /\ log[r].outcome = "cancelled"
            /\ log[r].sleeps = 0


\* ------------------------------------------------------------------- C14
\* C14: the rows of a batch are processed in row order, one at a time: only
\* the current row can have a wait in progress, every row before it has
\* finished (its wait elapsed before the next row's began), and nothing has
\* been done yet for any row after it.
C14_RowsInOrder ==
    /\ i \in 1..(Len(rows) + 1)
    /\ Cardinality({r \in RowIds : log[r].outcome = "pending"}) <= 1
    /\ \A r \in RowIds :
          /\ log[r].outcome = "pending" => (r = i /\ InLoop)
          /\ r > i => log[r] = NoLog
          /\ r < i =>
                /\ log[r].outcome \in {"none", "elapsed"}
                /\ log[r].called => log[r].outcome = "elapsed"
                /\ (RowIsValid(rows[r]) /\ fn # "sleep_until") => log[r].called
                /\ (RowIsValid(rows[r]) /\ fn = "sleep_until") => log[r].sampled
          /\ (r + 1 \in RowIds /\ log[r].called /\ log[r + 1].start >= 0) =>
                log[r].tEnd <= log[r + 1].start
          /\ (r + 1 \in RowIds /\ log[r].called /\ log[r + 1].sampled) =>
                EpochNow + log[r].tEnd <= log[r + 1].now

\* The second row's wait is in progress after the first row's wait elapsed.
C14_Witness ==
    /\ Len(rows) = 2
    /\ i = 2
    /\ log[1].outcome = "elapsed"
    /\ log[1].sleeps > 0
    /\ log[2].outcome = "pending"
    /\ log[2].sleeps > 0


\* ------------------------------------------------------------------- C15
\* C15: the length computed for a sleep is min(deadline - now, CHECK_INTERVAL)
\* with now read at that iteration; a sleep step is performed only when that
\* length is strictly positive, never exceeds CHECK_INTERVAL, and the thread
\* sleeps for the length computed.
C15_SleepLength ==
    [][ /\ (pc = "remaining" /\ pc' # "remaining") =>
              /\ sleep_duration' = (IF end_time - clock < CheckInterval
                                    THEN end_time - clock ELSE CheckInterval)
              /\ pc' = "sleep" <=> sleep_duration' > 0
              /\ pc' \in {"sleep", "loop"}
        /\ (pc = "sleep" /\ pc' # "sleep") =>
              /\ sleep_duration > 0
              /\ sleep_duration <= CheckInterval
              /\ clock' = clock + sleep_duration
              /\ log'[i].lastSleep = sleep_duration
              /\ log'[i].sleeps = log[i].sleeps + 1
      ]_vars

\* A last sleep shorter than the check interval follows a whole one.
C15_Witness ==
    /\ pc = "sleep"
    /\ sleep_duration > 0
    /\ sleep_duration < CheckInterval
    /\ log[i].sleeps = 1
    /\ log[i].lastSleep = CheckInterval

\* ------------------------------------------------------------------- C17
\* C17: the deadline of a wait is the clock at the call plus the duration, and
\* no step of the loop (test, interruption check, computation of the sleep,
\* sleep, a late wake-up) changes it.
C17_DeadlineFixed ==
    [][ /\ (InLoop /\ InLoop') => (end_time' = end_time /\ i' = i)
        /\ InLoop' => end_time' = log'[i'].start + log'[i'].dur
        /\ (pc = "perform" /\ InLoop') => log'[i'].start = clock
      ]_vars

\* The clock has passed the deadline after a late wake-up; the wait is not over
\* yet and the deadline is where it was.
C17_Witness ==
    /\ InLoop
    /\ held > 0
    /\ log[i].sleeps > 0
    /\ clock > end_time
    /\ end_time = Deadline(i)


\* ------------------------------------------------------------------- C16
\* The most sleep steps a wait can take: ceil(MAX_SLEEP_SECONDS / CHECK_INTERVAL).
MaxSleepSteps == (MaxSleepTicks + CheckInterval - 1) \div CheckInterval

C18_OnlyCancelled ==
    fn \in {"sleep_for", "sleep_until"} =>
        /\ error \in {"none", "InterruptException"}
        /\ \A r \in RowIds :
              /\ log[r].outcome \in {"none", "pending", "elapsed", "cancelled"}
              /\ log[r].start >= 0 => log[r].dur \in 0..MaxSleepTicks

====
